---- MODULE Spec2Model ----
(***************************************************************************)
(* Model of spacex_dash_app.py: the shared dataframe spacex_df, the three  *)
(* Dash callbacks update_pie_chart, update_scatter_chart and               *)
(* update_insight_charts, the wiring of the callbacks to the two inputs,   *)
(* and the callbacks run by concurrent request threads.                    *)
(***************************************************************************)
EXTENDS Integers, Sequences, FiniteSets, TLC

\* Largest number of rows of the CSV files explored.
MaxRows == 2

(***************************************************************************)
(* Column names and literals of the source.                                *)
(***************************************************************************)
LaunchSite == "Launch Site"
PayloadMass == "Payload Mass (kg)"
Class == "class"
BoosterVersionCategory == "Booster Version Category"
PayloadRange == "Payload Range"
ALL == "ALL"
NaN == "NaN"

BaseColumns == <<LaunchSite, PayloadMass, Class, BoosterVersionCategory>>

\* Values the CSV rows are drawn from.
Sites == {"CCAFS", "KSC"}
\* Payload mass and booster category of the flights: a payload of 0, one on an
\* interior bin edge, one inside a bin and one beyond the last edge.
Flights == {<<0, "v1.0">>, <<2500, "v1.0">>, <<3000, "FT">>, <<12000, "FT">>}

\* Arguments the callbacks are called with: 'ALL' and one site, which the CSV
\* may or may not have rows for.
SiteInputs == {ALL, "KSC"}
\* Slider positions the page is driven to.
SliderRanges == {<<1000, 6000>>, <<2000, 5000>>}
Ranges == {<<0, 10000>>, <<2500, 3000>>, <<3000, 2500>>}

bins == <<0, 2500, 5000, 7500, 10000>>
labels == <<"0-2500", "2500-5000", "5000-7500", "7500-10000">>

(***************************************************************************)
(* Dataframes: an ordered list of columns and an ordered list of rows,     *)
(* each row a function from the column names to values.                    *)
(***************************************************************************)
Range(s) == {s[i] : i \in DOMAIN s}

LaunchRecord(site, payload, class, booster) ==
    [c \in Range(BaseColumns) |->
        CASE c = LaunchSite -> site
          [] c = PayloadMass -> payload
          [] c = Class -> class
          [] OTHER -> booster]

LaunchRecords ==
    {LaunchRecord(s, f[1], c, f[2]) : s \in Sites, f \in Flights, c \in {0, 1}}

RowLists == UNION {[1..n -> LaunchRecords] : n \in 0..MaxRows}

\* pd.read_csv: the frames a well-formed CSV file can load as.
read_csv == {[columns |-> BaseColumns, data |-> d] : d \in RowLists}

\* The worked example: three launches at two sites.
ScenarioFrame ==
    [columns |-> BaseColumns,
     data |-> <<LaunchRecord("CCAFS", 1000, 1, "FT"),
                LaunchRecord("CCAFS", 6000, 0, "v1.0"),
                LaunchRecord("KSC", 3000, 1, "FT")>>]

Column(df, c) == [i \in DOMAIN df.data |-> df.data[i][c]]

\* df[mask]: the rows whose mask entry is TRUE, in order, all columns kept.
BoolIndex(df, mask) ==
    LET F[i \in 0..Len(df.data)] ==
            IF i = 0 THEN <<>>
            ELSE IF mask[i] THEN Append(F[i - 1], df.data[i]) ELSE F[i - 1]
    IN  [df EXCEPT !.data = F[Len(df.data)]]

\* A column assignment that also turns the row order around.
SetItemReversed(df, c, values) ==
    LET n == Len(df.data)
    IN  [columns |-> IF c \in Range(df.columns) THEN df.columns ELSE Append(df.columns, c),
         data |-> [i \in DOMAIN df.data |->
                     [k \in Range(df.columns) \cup {c} |->
                         IF k = c THEN values[n + 1 - i] ELSE df.data[n + 1 - i][k]]]]

\* df[c] = values: replaces column c, or appends it as the last column.
SetItem(df, c, values) ==
    [columns |-> IF c \in Range(df.columns) THEN df.columns ELSE Append(df.columns, c),
     data |-> [i \in DOMAIN df.data |->
                 [k \in Range(df.columns) \cup {c} |->
                     IF k = c THEN values[i] ELSE df.data[i][k]]]]

\* Series.min() / Series.max(): NaN over no rows.
SeriesMin(s) ==
    IF Len(s) = 0 THEN NaN ELSE CHOOSE x \in Range(s) : \A y \in Range(s) : x <= y
SeriesMax(s) ==
    IF Len(s) = 0 THEN NaN ELSE CHOOSE x \in Range(s) : \A y \in Range(s) : x >= y

\* Sum of a sequence of integers.
SeriesSum(s) ==
    LET F[i \in 0..Len(s)] == IF i = 0 THEN 0 ELSE F[i - 1] + s[i]
    IN  F[Len(s)]

\* The sum taken for the mean.
SeriesMeanAsSum(s) == [num |-> SeriesSum(s), den |-> 1]

\* Series.mean() as the fraction num/den; 0/0 is NaN.
SeriesMean(s) == [num |-> SeriesSum(s), den |-> Len(s)]

\* The rows of group k of df.groupby(key); rows whose key is NaN are in no group.
GroupRows(df, key, k) == BoolIndex(df, [i \in DOMAIN df.data |-> df.data[i][key] = k])

\* The group keys that occur.
GroupKeys(df, key) == {df.data[i][key] : i \in DOMAIN df.data} \ {NaN}

\* df.groupby(key)[val].count(): one entry per occurring key.
GroupCount(df, key, val) ==
    [k \in GroupKeys(df, key) |-> Len(Column(GroupRows(df, key, k), val))]

\* df.groupby(key)[val].mean() over the keys ks.
GroupMean(df, key, val, ks) ==
    [k \in ks |-> SeriesMean(Column(GroupRows(df, key, k), val))]

\* pd.cut(x, bins, labels): intervals (bins[i], bins[i+1]], NaN outside.
cut(x) ==
    IF \E i \in DOMAIN labels : bins[i] < x /\ x <= bins[i + 1]
    THEN labels[CHOOSE i \in DOMAIN labels : bins[i] < x /\ x <= bins[i + 1]]
    ELSE NaN

(***************************************************************************)
(* Figures.                                                                *)
(***************************************************************************)
\* A pie that weighs every row 1 whatever the values column.
px_pie_rows(df, names, values) ==
    [data |-> [i \in DOMAIN df.data |-> [label |-> df.data[i][names], value |-> 1]]]

\* px.pie(df, names, values): one (label, value) pair per row; without a
\* values column every row weighs 1.
px_pie(df, names, values) ==
    [data |-> [i \in DOMAIN df.data |->
                 [label |-> df.data[i][names],
                  value |-> IF values = "None" THEN 1 ELSE df.data[i][values]]]]

\* The slices the pie shows: one per distinct label, the sum of its values.
PieSlices(fig) ==
    [l \in {fig.data[i].label : i \in DOMAIN fig.data} |->
        LET F[i \in 0..Len(fig.data)] ==
                IF i = 0 THEN 0
                ELSE F[i - 1] + (IF fig.data[i].label = l THEN fig.data[i].value ELSE 0)
        IN  F[Len(fig.data)]]

\* px.scatter(df, x, y, color): one point per row.
px_scatter(df, x, y, color) ==
    [data |-> [i \in DOMAIN df.data |->
                 [x |-> df.data[i][x], y |-> df.data[i][y], color |-> df.data[i][color]]]]

\* px.bar(table, x, y): the table it is given.
px_bar(table) == table

(***************************************************************************)
(* State.                                                                  *)
(***************************************************************************)
VARIABLES
    csv,            \* the content of spacex_launch_dash.csv
    spacex_df,      \* the module-level dataframe
    observed,       \* whether groupby on a categorical key keeps only observed groups
    out,            \* the last callback invocation: its arguments and its figures
    site_dropdown,  \* value of the component 'site-dropdown'
    payload_slider, \* value of the component 'payload-slider'
    pending,        \* the callbacks dispatched and not yet run
    shown,          \* per graph, the input values its figure was computed from
    threads         \* the request threads serving callbacks concurrently

data_vars == <<csv, spacex_df, observed>>
ui_vars == <<site_dropdown, payload_slider, pending, shown>>
vars == <<csv, spacex_df, observed, out, site_dropdown, payload_slider, pending, shown,
          threads>>

NoCall == [callback |-> "none"]
NoArgs == [selected_site |-> "none"]

Callbacks == {"update_pie_chart", "update_scatter_chart", "update_insight_charts"}

\* Every callback wired to the dropdown alone.
callback_inputs_site_only(cb) == {"site-dropdown"}

\* Input(...) of each @app.callback.
callback_inputs(cb) ==
    CASE cb = "update_pie_chart" -> {"site-dropdown"}
      [] cb = "update_scatter_chart" -> {"site-dropdown", "payload-slider"}
      [] cb = "update_insight_charts" -> {"site-dropdown"}

\* Output(...) of each @app.callback.
callback_outputs(cb) ==
    CASE cb = "update_pie_chart" -> {"success-pie-chart"}
      [] cb = "update_scatter_chart" -> {"success-payload-scatter-chart"}
      [] cb = "update_insight_charts" ->
            {"site-success-bar", "site-success-rate-bar", "payload-success-rate-bar",
             "booster-success-rate-bar"}

\* The dcc.Graph components of the layout.
Graphs == UNION {callback_outputs(cb) : cb \in Callbacks}

\* The layout as first served: the dropdown on 'ALL', the slider on the
\* observed payload span, no figure yet.
layout(df) ==
    /\ site_dropdown = ALL
    /\ payload_slider = <<SeriesMin(Column(df, PayloadMass)), SeriesMax(Column(df, PayloadMass))>>
    /\ shown = [g \in Graphs |-> NoArgs]

Idle == [pc |-> "idle"]
Threads == {1, 2}

InitWith(files, initial_calls) ==
    /\ csv \in files
    /\ spacex_df = csv
    /\ observed \in BOOLEAN
    /\ out = NoCall
    /\ layout(csv)
    /\ pending = initial_calls
    /\ threads = [t \in Threads |-> Idle]

Init == InitWith(read_csv, {})

(***************************************************************************)
(* The callbacks.                                                          *)
(***************************************************************************)
PieFigure(df, selected_site) ==
    IF selected_site = ALL
    THEN px_pie(df, LaunchSite, Class)
    ELSE px_pie(BoolIndex(df, [i \in DOMAIN df.data |-> df.data[i][LaunchSite] = selected_site]),
                Class, "None")

update_pie_chart(selected_site) ==
    /\ out' = [callback |-> "update_pie_chart", selected_site |-> selected_site,
               fig |-> PieFigure(spacex_df, selected_site)]
    /\ UNCHANGED data_vars

\* The two comparisons joined by | instead of &.
PayloadMaskOr(df, low, high) ==
    [i \in DOMAIN df.data |-> df.data[i][PayloadMass] >= low \/ df.data[i][PayloadMass] <= high]

\* The upper bound taken exclusive.
PayloadMaskStrict(df, low, high) ==
    [i \in DOMAIN df.data |-> df.data[i][PayloadMass] >= low /\ df.data[i][PayloadMass] < high]

PayloadMask(df, low, high) ==
    [i \in DOMAIN df.data |-> df.data[i][PayloadMass] >= low /\ df.data[i][PayloadMass] <= high]

ScatterFrame(df, selected_site, payload_range) ==
    LET low == payload_range[1]
        high == payload_range[2]
        filtered_df == BoolIndex(df, PayloadMask(df, low, high))
    IN  IF selected_site # ALL
        THEN BoolIndex(filtered_df,
                       [i \in DOMAIN filtered_df.data |->
                           filtered_df.data[i][LaunchSite] = selected_site])
        ELSE filtered_df

ScatterFigure(df, selected_site, payload_range) ==
    px_scatter(ScatterFrame(df, selected_site, payload_range),
               PayloadMass, Class, BoosterVersionCategory)

update_scatter_chart(selected_site, payload_range) ==
    /\ out' = [callback |-> "update_scatter_chart", selected_site |-> selected_site,
               payload_range |-> payload_range,
               fig |-> ScatterFigure(spacex_df, selected_site, payload_range)]
    /\ UNCHANGED data_vars

SiteSuccess(df) ==
    GroupCount(BoolIndex(df, [i \in DOMAIN df.data |-> df.data[i][Class] = 1]), LaunchSite, Class)

SiteRate(df) == GroupMean(df, LaunchSite, Class, GroupKeys(df, LaunchSite))

PayloadRangeValues(df) == [i \in DOMAIN df.data |-> cut(df.data[i][PayloadMass])]

\* The column assignment followed by dropping the rows it leaves unlabelled.
WithPayloadRangeBinnedOnly(df) ==
    LET v == PayloadRangeValues(df)
    IN  BoolIndex(SetItem(df, PayloadRange, v), [i \in DOMAIN v |-> v[i] # NaN])

\* spacex_df['Payload Range'] = pd.cut(spacex_df['Payload Mass (kg)'], ...)
WithPayloadRange(df) == SetItem(df, PayloadRange, PayloadRangeValues(df))

\* Grouping by the categorical column: every category, or the observed ones only.
PayloadRate(df, obs) ==
    GroupMean(df, PayloadRange, Class,
              IF obs THEN GroupKeys(df, PayloadRange) ELSE Range(labels))

BoosterRate(df) ==
    GroupMean(df, BoosterVersionCategory, Class, GroupKeys(df, BoosterVersionCategory))

InsightFigures(df, obs) ==
    [fig_site_success |-> px_bar(SiteSuccess(df)),
     fig_site_rate |-> px_bar(SiteRate(df)),
     fig_payload_rate |-> px_bar(PayloadRate(WithPayloadRange(df), obs)),
     fig_booster_rate |-> px_bar(BoosterRate(WithPayloadRange(df)))]

update_insight_charts(selected_site) ==
    /\ spacex_df' = WithPayloadRange(spacex_df)
    /\ out' = [callback |-> "update_insight_charts", selected_site |-> selected_site,
               fig |-> InsightFigures(spacex_df, observed)]
    /\ UNCHANGED <<csv, observed>>

(***************************************************************************)
(* The callbacks invoked one at a time with any arguments.                 *)
(***************************************************************************)
PieCall ==
    /\ \E s \in SiteInputs : update_pie_chart(s)
    /\ UNCHANGED <<ui_vars, threads>>

ScatterCall ==
    /\ \E s \in SiteInputs, r \in Ranges : update_scatter_chart(s, r)
    /\ UNCHANGED <<ui_vars, threads>>

InsightCall ==
    /\ \E s \in SiteInputs : update_insight_charts(s)
    /\ UNCHANGED <<ui_vars, threads>>

Next == PieCall \/ ScatterCall \/ InsightCall

Spec == Init /\ [][Next]_vars

(***************************************************************************)
(* The page: a change of an input dispatches the callbacks that list it as *)
(* an Input; a dispatched callback runs with the inputs' current values    *)
(* and its figures replace those of its Output graphs.                     *)
(***************************************************************************)
Dispatched(input) == {cb \in Callbacks : input \in callback_inputs(cb)}

CurrentArgs(cb) ==
    IF "payload-slider" \in callback_inputs(cb)
    THEN [selected_site |-> site_dropdown, payload_range |-> payload_slider]
    ELSE [selected_site |-> site_dropdown]

ChangeSite ==
    /\ \E s \in SiteInputs \ {site_dropdown} : site_dropdown' = s
    /\ pending' = pending \cup Dispatched("site-dropdown")
    /\ UNCHANGED <<data_vars, out, payload_slider, shown, threads>>

ChangeRange ==
    /\ \E r \in SliderRanges \ {payload_slider} : payload_slider' = r
    /\ pending' = pending \cup Dispatched("payload-slider")
    /\ UNCHANGED <<data_vars, out, site_dropdown, shown, threads>>

RunCallback(cb) ==
    /\ cb \in pending
    /\ \/ cb = "update_pie_chart" /\ update_pie_chart(site_dropdown)
       \/ cb = "update_scatter_chart" /\ update_scatter_chart(site_dropdown, payload_slider)
       \/ cb = "update_insight_charts" /\ update_insight_charts(site_dropdown)
    /\ pending' = pending \ {cb}
    /\ shown' = [g \in Graphs |-> IF g \in callback_outputs(cb) THEN CurrentArgs(cb) ELSE shown[g]]
    /\ UNCHANGED <<site_dropdown, payload_slider, threads>>

RunPie == RunCallback("update_pie_chart")
RunScatter == RunCallback("update_scatter_chart")
RunInsight == RunCallback("update_insight_charts")

UINext == ChangeSite \/ ChangeRange \/ RunPie \/ RunScatter \/ RunInsight

\* On page load every callback is dispatched once.
UIInit == InitWith({ScenarioFrame}, Callbacks)

\* The steps that serve callback cb: among the steps of UINext, those of RunCallback(cb).
Served(cb) == cb \in pending /\ pending' = pending \ {cb}

\* A dispatched callback is eventually served.
UISpec ==
    /\ UIInit
    /\ [][UINext]_vars
    /\ \A cb \in Callbacks : WF_pending(Served(cb))

(***************************************************************************)
(* The callbacks served by concurrent request threads of app.run, which    *)
(* all work on the one module-level spacex_df.  A step is one statement    *)
(* that reads or writes spacex_df; the column assignment of                *)
(* update_insight_charts is three steps: the lookup of the column name,    *)
(* the start of the change of the frame and its end.  A statement that     *)
(* uses the frame while another thread is between the start and the end of *)
(* its change either gets what it asked for or raises.                     *)
(***************************************************************************)
NoResult == [status |-> "none"]
NoLocal ==
    [mask |-> <<>>, site_success |-> <<>>, site_rate |-> <<>>, values |-> <<>>,
     exists |-> FALSE, payload_rate |-> <<>>]

Entry(cb) ==
    CASE cb = "update_pie_chart" -> "pie_67"
      [] cb = "update_scatter_chart" -> "scatter_91"
      [] cb = "update_insight_charts" -> "insight_114"

\* Another thread is in the middle of changing the frame.
Mutating(t) == \E u \in Threads \ {t} : threads[u].pc = "insight_124_set_end"

\* The frame has two columns of one name.
Duplicated(df) ==
    \E i, j \in DOMAIN df.columns : i < j /\ df.columns[i] = df.columns[j]

\* BlockManager.insert: appends a column without looking for its name.
InsertColumn(df, c, values) ==
    [columns |-> Append(df.columns, c), data |-> SetItem(df, c, values).data]

Goto(t, rec) == threads' = [threads EXCEPT ![t] = rec]

Raise(t) == Goto(t, [threads[t] EXCEPT !.pc = "done", !.result = [status |-> "error"]])

\* A statement that uses spacex_df and leaves thread t as rec.
Use(t, rec) == Goto(t, rec) \/ (Mutating(t) /\ Raise(t))

\* A request for a callback arrives at an idle thread.
Request(t) ==
    /\ threads[t].pc = "idle"
    /\ \E cb \in Callbacks, s \in SiteInputs, r \in Ranges :
          /\ cb # "update_scatter_chart" => r = <<0, 10000>>
          /\ Goto(t, [pc |-> Entry(cb), callback |-> cb, selected_site |-> s,
                      payload_range |-> r, local |-> NoLocal, result |-> NoResult])
    /\ UNCHANGED <<data_vars, out, ui_vars>>

\* The response is sent.
Respond(t) ==
    /\ threads[t].pc = "done"
    /\ Goto(t, Idle)
    /\ UNCHANGED <<data_vars, out, ui_vars>>

\* update_pie_chart: the one statement of either branch that uses spacex_df.
Pie_67(t) ==
    /\ threads[t].pc = "pie_67"
    /\ \/ Use(t, [threads[t] EXCEPT
                    !.pc = "done",
                    !.result = [status |-> "ok",
                                fig |-> PieFigure(spacex_df, threads[t].selected_site)]])
       \/ Duplicated(spacex_df) /\ Raise(t)
    /\ UNCHANGED <<data_vars, out, ui_vars>>

\* mask = (spacex_df[...] >= low) & (spacex_df[...] <= high)
Scatter_91(t) ==
    /\ threads[t].pc = "scatter_91"
    /\ Use(t, [threads[t] EXCEPT
                 !.pc = "scatter_92",
                 !.local.mask = PayloadMask(spacex_df, threads[t].payload_range[1],
                                            threads[t].payload_range[2])])
    /\ UNCHANGED <<data_vars, out, ui_vars>>

\* filtered_df = spacex_df[mask], then the site filter and px.scatter on the copy.
Scatter_92(t) ==
    /\ threads[t].pc = "scatter_92"
    /\ LET filtered_df == BoolIndex(spacex_df, threads[t].local.mask)
           by_site ==
               IF threads[t].selected_site # ALL
               THEN BoolIndex(filtered_df,
                              [i \in DOMAIN filtered_df.data |->
                                  filtered_df.data[i][LaunchSite] = threads[t].selected_site])
               ELSE filtered_df
       IN  \/ Use(t, [threads[t] EXCEPT
                        !.pc = "done",
                        !.result = [status |-> "ok",
                                    fig |-> px_scatter(by_site, PayloadMass, Class,
                                                       BoosterVersionCategory)]])
           \/ Duplicated(spacex_df) /\ Raise(t)
    /\ UNCHANGED <<data_vars, out, ui_vars>>

Insight_114(t) ==
    /\ threads[t].pc = "insight_114"
    /\ Use(t, [threads[t] EXCEPT !.pc = "insight_118",
                                 !.local.site_success = px_bar(SiteSuccess(spacex_df))])
    /\ UNCHANGED <<data_vars, out, ui_vars>>

Insight_118(t) ==
    /\ threads[t].pc = "insight_118"
    /\ Use(t, [threads[t] EXCEPT !.pc = "insight_124_cut",
                                 !.local.site_rate = px_bar(SiteRate(spacex_df))])
    /\ UNCHANGED <<data_vars, out, ui_vars>>

\* pd.cut(spacex_df['Payload Mass (kg)'], bins=bins, labels=labels)
Insight_124_cut(t) ==
    /\ threads[t].pc = "insight_124_cut"
    /\ Use(t, [threads[t] EXCEPT !.pc = "insight_124_get_loc",
                                 !.local.values = PayloadRangeValues(spacex_df)])
    /\ UNCHANGED <<data_vars, out, ui_vars>>

\* spacex_df['Payload Range'] = ...: is there a column of that name?
Insight_124_get_loc(t) ==
    /\ threads[t].pc = "insight_124_get_loc"
    /\ Use(t, [threads[t] EXCEPT !.pc = "insight_124_set_begin",
                                 !.local.exists = PayloadRange \in Range(spacex_df.columns)])
    /\ UNCHANGED <<data_vars, out, ui_vars>>

\* The change of the frame starts.
Insight_124_set_begin(t) ==
    /\ threads[t].pc = "insight_124_set_begin"
    /\ Use(t, [threads[t] EXCEPT !.pc = "insight_124_set_end"])
    /\ UNCHANGED <<data_vars, out, ui_vars>>

\* The change of the frame ends: the column found is replaced, a column not
\* found is inserted.
Insight_124_set_end(t) ==
    /\ threads[t].pc = "insight_124_set_end"
    /\ spacex_df' = IF threads[t].local.exists
                    THEN SetItem(spacex_df, PayloadRange, threads[t].local.values)
                    ELSE InsertColumn(spacex_df, PayloadRange, threads[t].local.values)
    /\ Goto(t, [threads[t] EXCEPT !.pc = "insight_125"])
    /\ UNCHANGED <<csv, observed, out, ui_vars>>

\* spacex_df.groupby('Payload Range'): raises when the name is not one column.
Insight_125(t) ==
    /\ threads[t].pc = "insight_125"
    /\ IF Duplicated(spacex_df)
       THEN Raise(t)
       ELSE Use(t, [threads[t] EXCEPT
                      !.pc = "insight_129",
                      !.local.payload_rate = px_bar(PayloadRate(spacex_df, observed))])
    /\ UNCHANGED <<data_vars, out, ui_vars>>

Insight_129(t) ==
    /\ threads[t].pc = "insight_129"
    /\ Use(t, [threads[t] EXCEPT
                 !.pc = "done",
                 !.result = [status |-> "ok",
                             fig |-> [fig_site_success |-> threads[t].local.site_success,
                                      fig_site_rate |-> threads[t].local.site_rate,
                                      fig_payload_rate |-> threads[t].local.payload_rate,
                                      fig_booster_rate |-> px_bar(BoosterRate(spacex_df))]]])
    /\ UNCHANGED <<data_vars, out, ui_vars>>

ThreadStep(t) ==
    \/ Request(t) \/ Respond(t)
    \/ Pie_67(t)
    \/ Scatter_91(t) \/ Scatter_92(t)
    \/ Insight_114(t) \/ Insight_118(t) \/ Insight_124_cut(t) \/ Insight_124_get_loc(t)
    \/ Insight_124_set_begin(t) \/ Insight_124_set_end(t) \/ Insight_125(t) \/ Insight_129(t)

ConcNext == \E t \in Threads : ThreadStep(t)

ConcSpec == InitWith({ScenarioFrame}, {}) /\ [][ConcNext]_vars

(***************************************************************************)
(* Properties of the callbacks invoked one at a time (Spec).               *)
(***************************************************************************)
Rows == DOMAIN csv.data
Payload(i) == csv.data[i][PayloadMass]
SitesOf(df) == {df.data[i][LaunchSite] : i \in DOMAIN df.data}
Successes(s) == {i \in Rows : csv.data[i][LaunchSite] = s /\ csv.data[i][Class] = 1}
InUnit(m) == m.den > 0 /\ 0 <= m.num /\ m.num <= m.den

\* C1: once update_insight_charts has run, every row with payload in [0,10000],
\* a payload of 0 included, carries exactly the label of its bucket (an interior
\* edge belongs to the bucket it closes), and every other row carries NaN.
C1_BinningExhaustive ==
    PayloadRange \in Range(spacex_df.columns) =>
        \A i \in Rows :
            LET p == Payload(i)
                l == spacex_df.data[i][PayloadRange]
            IN  /\ (0 <= p /\ p <= 2500) => l = "0-2500"
                /\ (2500 < p /\ p <= 5000) => l = "2500-5000"
                /\ (5000 < p /\ p <= 7500) => l = "5000-7500"
                /\ (7500 < p /\ p <= 10000) => l = "7500-10000"
                /\ (p < 0 \/ p > 10000) => l = NaN

\* C2: the scatter figure holds exactly the rows of the dataset with
\* low <= payload <= high and, unless the site is 'ALL', with the selected
\* site, in dataset order, each with its own payload, outcome and booster.
C2_ScatterExact ==
    out.callback = "update_scatter_chart" =>
        LET low == out.payload_range[1]
            high == out.payload_range[2]
            hit == {i \in Rows :
                      /\ low <= Payload(i) /\ Payload(i) <= high
                      /\ out.selected_site # ALL => csv.data[i][LaunchSite] = out.selected_site}
        IN  /\ Len(out.fig.data) = Cardinality(hit)
            /\ \E f \in [DOMAIN out.fig.data -> hit] :
                 /\ \A j, k \in DOMAIN out.fig.data : j < k => f[j] < f[k]
                 /\ \A k \in DOMAIN out.fig.data :
                      /\ out.fig.data[k].x = csv.data[f[k]][PayloadMass]
                      /\ out.fig.data[k].y = csv.data[f[k]][Class]
                      /\ out.fig.data[k].color = csv.data[f[k]][BoosterVersionCategory]

\* A site-restricted scatter call that keeps a row lying on the lower bound of
\* the range and drops the other row of a two-row dataset.
C2_Witness ==
    /\ out.callback = "update_scatter_chart"
    /\ out.selected_site # ALL
    /\ Len(csv.data) = 2
    /\ Len(out.fig.data) = 1
    /\ out.fig.data[1].x = out.payload_range[1]

\* C3: a scatter call with low > high plots no row, and a pie or scatter call
\* for a site that no dataset row has yields a figure over zero rows.
C3_EmptySelection ==
    /\ (out.callback = "update_scatter_chart" /\ out.payload_range[1] > out.payload_range[2])
           => out.fig.data = <<>>
    /\ (/\ out.callback \in {"update_pie_chart", "update_scatter_chart"}
        /\ out.selected_site # ALL
        /\ out.selected_site \notin SitesOf(csv))
           => out.fig.data = <<>>

\* A scatter call with low > high over a dataset that has rows at both ends of
\* the reversed range.
C3_Witness ==
    /\ out.callback = "update_scatter_chart"
    /\ out.payload_range[1] > out.payload_range[2]
    /\ out.selected_site = ALL
    /\ {Payload(i) : i \in Rows} = {out.payload_range[1], out.payload_range[2]}
    /\ out.fig.data = <<>>

\* C4: spacex_df always has the loaded rows in the loaded order with the loaded
\* values in the four loaded columns; its only other column is 'Payload Range',
\* equal for rows of equal payload; the pie and scatter callbacks change nothing.
C4_DatasetKept ==
    /\ [](/\ DOMAIN spacex_df.data = Rows
          /\ \A i \in Rows : \A c \in Range(BaseColumns) : spacex_df.data[i][c] = csv.data[i][c]
          /\ spacex_df.columns \in {BaseColumns, Append(BaseColumns, PayloadRange)}
          /\ \A i \in Rows : DOMAIN spacex_df.data[i] = Range(spacex_df.columns)
          /\ PayloadRange \in Range(spacex_df.columns) =>
                \A i, j \in Rows :
                    Payload(i) = Payload(j) =>
                        spacex_df.data[i][PayloadRange] = spacex_df.data[j][PayloadRange])
    /\ [][out'.callback \in {"update_pie_chart", "update_scatter_chart"}
            => spacex_df' = spacex_df]_vars

\* The derived column is in place over two rows of different payload, and a
\* scatter call has run since.
C4_Witness ==
    /\ PayloadRange \in Range(spacex_df.columns)
    /\ Len(csv.data) = 2
    /\ Payload(1) > Payload(2)
    /\ spacex_df.data[1][PayloadRange] = NaN
    /\ spacex_df.data[2][PayloadRange] # NaN
    /\ out.callback = "update_scatter_chart"

\* C5: for 'ALL' the pie has one slice per launch site, worth the site's number
\* of successful launches; for a site it has one slice per outcome of the site's
\* rows, worth the number of those rows; the slices sum to the rows counted.
C5_PieCounts ==
    out.callback = "update_pie_chart" =>
        LET slices == PieSlices(out.fig)
            Total[S \in SUBSET DOMAIN slices] ==
                IF S = {} THEN 0
                ELSE LET x == CHOOSE x \in S : TRUE IN slices[x] + Total[S \ {x}]
            mine == {i \in Rows : csv.data[i][LaunchSite] = out.selected_site}
        IN  IF out.selected_site = ALL
            THEN /\ DOMAIN slices = SitesOf(csv)
                 /\ \A s \in DOMAIN slices : slices[s] = Cardinality(Successes(s))
                 /\ Total[DOMAIN slices] = Cardinality({i \in Rows : csv.data[i][Class] = 1})
            ELSE /\ DOMAIN slices = {csv.data[i][Class] : i \in mine}
                 /\ \A c \in DOMAIN slices :
                      slices[c] = Cardinality({i \in mine : csv.data[i][Class] = c})
                 /\ Total[DOMAIN slices] = Cardinality(mine)

\* The 'ALL' pie over a site with one success and one failure.
C5_Witness ==
    /\ out.callback = "update_pie_chart"
    /\ out.selected_site = ALL
    /\ Len(csv.data) = 2
    /\ csv.data[1][Class] # csv.data[2][Class]
    /\ Cardinality(SitesOf(csv)) = 1
    /\ \A s \in SitesOf(csv) : PieSlices(out.fig)[s] = 1

\* C6: whatever site is selected, the success-count view has, for every launch
\* site of the dataset, the number of its successful rows, and the success-rate
\* view has that number divided by the number of the site's rows.
C6_SiteViews ==
    out.callback = "update_insight_charts" =>
        \A s \in SitesOf(csv) :
            LET n == Cardinality({i \in Rows : csv.data[i][LaunchSite] = s})
            IN  /\ s \in DOMAIN out.fig.fig_site_success
                /\ out.fig.fig_site_success[s] = Cardinality(Successes(s))
                /\ s \in DOMAIN out.fig.fig_site_rate
                /\ out.fig.fig_site_rate[s].den > 0
                /\ out.fig.fig_site_rate[s].num * n
                       = Cardinality(Successes(s)) * out.fig.fig_site_rate[s].den

\* C7 as stated: every launch site, every one of the four payload buckets and
\* every booster category has a success rate within [0,1].
C7_AllRatesInUnit ==
    out.callback = "update_insight_charts" =>
        /\ \A s \in SitesOf(csv) :
              s \in DOMAIN out.fig.fig_site_rate /\ InUnit(out.fig.fig_site_rate[s])
        /\ \A l \in Range(labels) :
              l \in DOMAIN out.fig.fig_payload_rate /\ InUnit(out.fig.fig_payload_rate[l])
        /\ \A b \in {csv.data[i][BoosterVersionCategory] : i \in Rows} :
              b \in DOMAIN out.fig.fig_booster_rate /\ InUnit(out.fig.fig_booster_rate[b])

\* C7 amended: every launch site, every booster category and every payload
\* bucket that holds at least one row has a success rate within [0,1]; a bucket
\* holding no row is reported without a value (0/0) or not reported.
C7_NonEmptyRatesInUnit ==
    out.callback = "update_insight_charts" =>
        /\ DOMAIN out.fig.fig_site_rate = SitesOf(csv)
        /\ \A s \in SitesOf(csv) : InUnit(out.fig.fig_site_rate[s])
        /\ DOMAIN out.fig.fig_booster_rate = {csv.data[i][BoosterVersionCategory] : i \in Rows}
        /\ \A b \in DOMAIN out.fig.fig_booster_rate : InUnit(out.fig.fig_booster_rate[b])
        /\ DOMAIN out.fig.fig_payload_rate \subseteq Range(labels)
        /\ \A k \in DOMAIN labels :
              IF \E i \in Rows : bins[k] < Payload(i) /\ Payload(i) <= bins[k + 1]
              THEN /\ labels[k] \in DOMAIN out.fig.fig_payload_rate
                   /\ InUnit(out.fig.fig_payload_rate[labels[k]])
              ELSE \/ labels[k] \notin DOMAIN out.fig.fig_payload_rate
                   \/ out.fig.fig_payload_rate[labels[k]].den = 0

\* Two rows in one bucket, one a success and one a failure, beside buckets
\* that hold no row.
C7_Witness ==
    /\ out.callback = "update_insight_charts"
    /\ "0-2500" \in DOMAIN out.fig.fig_payload_rate
    /\ out.fig.fig_payload_rate["0-2500"] = [num |-> 1, den |-> 2]
    /\ Cardinality(SitesOf(csv)) = 2

\* C9: whatever calls came before, the figures of a call are those the same
\* call computes from the dataset as loaded.
C9_PureViews ==
    /\ out.callback = "update_pie_chart" => out.fig = PieFigure(csv, out.selected_site)
    /\ out.callback = "update_scatter_chart"
           => out.fig = ScatterFigure(csv, out.selected_site, out.payload_range)
    /\ out.callback = "update_insight_charts" => out.fig = InsightFigures(csv, observed)

\* A pie call for one site made after update_insight_charts has written its
\* column, over a dataset with a row the binning leaves unlabelled.
C9_Witness ==
    /\ out.callback = "update_pie_chart"
    /\ out.selected_site # ALL
    /\ PayloadRange \in Range(spacex_df.columns)
    /\ \E i \in Rows : spacex_df.data[i][PayloadRange] = NaN
    /\ Len(out.fig.data) = 2

(***************************************************************************)
(* Properties of the page (UISpec).                                        *)
(***************************************************************************)
\* C8 as stated: every change of the site dropdown and every change of the
\* payload range control leaves all three callbacks, hence all six figures,
\* due for recomputation.
C8_AllPanelsRerender ==
    [][(site_dropdown' # site_dropdown \/ payload_slider' # payload_slider)
          => Callbacks \subseteq pending']_vars

\* C8 amended: a change of the site dropdown dispatches all three callbacks
\* (six figures); a change of the payload range control dispatches
\* update_scatter_chart and nothing else; a dispatched callback is eventually
\* run, and the figures of a callback that is not due were computed from the
\* current values of its inputs.
C8_WiredPanelsRerender ==
    /\ [][/\ site_dropdown' # site_dropdown => Callbacks \subseteq pending'
          /\ payload_slider' # payload_slider =>
                /\ "update_scatter_chart" \in pending'
                /\ pending' \ pending \subseteq {"update_scatter_chart"}]_vars
    /\ [](\A cb \in Callbacks \ pending :
            \A g \in callback_outputs(cb) : shown[g] = CurrentArgs(cb))
    /\ \A cb \in Callbacks : (cb \in pending) ~> (cb \notin pending)

\* The slider has just moved on a settled page: only the scatter callback is due.
C8_Witness ==
    /\ pending = {"update_scatter_chart"}
    /\ shown["success-pie-chart"] = [selected_site |-> site_dropdown]
    /\ shown["success-payload-scatter-chart"] # NoArgs
    /\ shown["success-payload-scatter-chart"].payload_range # payload_slider

(***************************************************************************)
(* Properties of the concurrent request threads (ConcSpec).                *)
(***************************************************************************)
\* C10: under every interleaving, a callback that has finished returns the
\* figures it computes alone from the dataset as loaded, and the loaded rows
\* and columns of spacex_df are unchanged.
C10_NoInterference ==
    /\ \A t \in Threads :
          threads[t].pc = "done" =>
              /\ threads[t].result.status = "ok"
              /\ threads[t].result.fig =
                    CASE threads[t].callback = "update_pie_chart" ->
                            PieFigure(csv, threads[t].selected_site)
                      [] threads[t].callback = "update_scatter_chart" ->
                            ScatterFigure(csv, threads[t].selected_site, threads[t].payload_range)
                      [] threads[t].callback = "update_insight_charts" ->
                            InsightFigures(csv, observed)
    /\ SubSeq(spacex_df.columns, 1, Len(BaseColumns)) = BaseColumns
    /\ DOMAIN spacex_df.data = Rows
    /\ \A i \in Rows : \A c \in Range(BaseColumns) : spacex_df.data[i][c] = csv.data[i][c]

====
